---- MODULE Spec2Model ----
(***************************************************************************)
(* The request pipeline assembled in src/src/app.js: the middleware stack  *)
(* built by the app.use calls, Express's dispatch of a request through it, *)
(* and the two handlers written in the file (unknown route, error).        *)
(*                                                                         *)
(* A request's method, Origin and Authorization headers and its body are   *)
(* fixed when a stage first reads them; until then they are unread.  URL strings are modelled as a record *)
(* of the path's segments and the query string.                            *)
(***************************************************************************)
EXTENDS Naturals, Sequences, FiniteSets

VARIABLES docs, reqs, graphqlCalls

vars == <<docs, reqs, graphqlCalls>>

----------------------------------------------------------------------------
(* Bounds of the model                                                     *)

NumUsers == 2

Users == 1..NumUsers

\* two requests are in flight at once; their stages interleave freely
Reqs == {"r1", "r2"}

NoUser == 0

----------------------------------------------------------------------------
(* Requests the clients send                                               *)

NoUrl == [path |-> <<>>, query |-> ""]

Paths ==
  { <<"public", "a.png">>, <<"public", "missing.png">>, <<"health-check">>,
    <<"api", "auth", "login">>, <<"api", "mailer", "send">>,
    <<"api", "payments", "charge">>, <<"api", "graphql">>, <<"api", "docs">>,
    <<"nope">> }

Urls ==
  {[path |-> p, query |-> ""] : p \in Paths} \cup {[path |-> <<"nope">>, query |-> "x=1"]}

PublicFiles == { <<"public", "a.png">> }

AllowedOrigin == "http://localhost:8080"

Origins == {AllowedOrigin, "http://evil.example"}

Methods == {"GET", "OPTIONS"}

Bodies == {"json", "badjson"}

Unread == [kind |-> "unread", sub |-> NoUser]

Tokens ==
  {[kind |-> "none", sub |-> NoUser], [kind |-> "invalid", sub |-> NoUser]}
    \cup {[kind |-> "valid", sub |-> u] : u \in Users}

ReadMethod(q) == IF q.method = "unread" THEN Methods ELSE {q.method}

ReadOrigin(q) == IF q.origin = "unread" THEN Origins ELSE {q.origin}

ReadBody(q) == IF q.body = "unread" THEN Bodies ELSE {q.body}

ReadAuthorization(q) == IF q.authorization = Unread THEN Tokens ELSE {q.authorization}

----------------------------------------------------------------------------
(* Errors and responses                                                    *)

NoError == [name |-> "none", message |-> "", statusCode |-> "", errors |-> <<>>]

ParseError ==
  [name |-> "SyntaxError", message |-> "Unexpected token", statusCode |-> "400", errors |-> <<>>]

UpstreamError ==
  [name |-> "Error", message |-> "upstream failure", statusCode |-> "", errors |-> <<>>]

NoBody == [kind |-> "none", errors |-> <<>>]

NoRes == [by |-> "none", status |-> 0, body |-> NoBody, headers |-> {}]

ErrorsBody(list) == [kind |-> "errors", errors |-> list]

\* res.status(code): the status line carries the number the string denotes
ToStatus(code) ==
  CASE code = "400" -> 400
    [] code = "401" -> 401
    [] code = "404" -> 404
    [] OTHER -> 500

\* local-error-handler: normalises an error into message, statusCode, jsonResponse
formatError(e) ==
  IF e.name = "AppError"
    THEN [message |-> e.message, statusCode |-> e.statusCode, jsonResponse |-> e.errors]
    ELSE LET sc == IF e.statusCode = "" THEN "500" ELSE e.statusCode
         IN [message |-> e.message,
             statusCode |-> sc,
             jsonResponse |-> <<[statusCode |-> sc, message |-> e.message,
                                 code |-> "UNKNOWN", meta |-> [route |-> NoUrl]]>>]

----------------------------------------------------------------------------
(* The middleware stack, in registration order                             *)

Layer(name, mount, isError) == [name |-> name, mount |-> mount, isError |-> isError]

\* app.use(helmet()), app.use(helmet.referrerPolicy(..)), app.use(helmet.contentSecurityPolicy(..))
SecurityLayers ==
  << Layer("helmet", <<>>, FALSE),
     Layer("referrerPolicy", <<>>, FALSE),
     Layer("contentSecurityPolicy", <<>>, FALSE) >>

GlobalLayers ==
  << Layer("static", <<"public">>, FALSE),
     Layer("healthCheck", <<"health-check">>, FALSE),
     Layer("passportInitialize", <<>>, FALSE),
     Layer("requestLogger", <<>>, FALSE),
     Layer("cookieParser", <<>>, FALSE),
     Layer("urlencoded", <<>>, FALSE),
     Layer("json", <<>>, FALSE),
     Layer("cors", <<>>, FALSE) >>

\* app.use(path, verifyJwt(), handler) registers two layers on the same path
RouteLayers ==
  << Layer("authRoutes", <<"api", "auth">>, FALSE),
     Layer("mailerRoutes", <<"api", "mailer">>, FALSE),
     Layer("verifyJwt", <<"api", "payments">>, FALSE),
     Layer("paymentRoutes", <<"api", "payments">>, FALSE) >>

GraphqlLayers ==
  << Layer("verifyJwt", <<"api", "graphql">>, FALSE),
     Layer("graphqlExpress", <<"api", "graphql">>, FALSE) >>

DocsLayers(docsEnabled) ==
  IF docsEnabled THEN << Layer("graphiqlExpress", <<"api", "docs">>, FALSE) >> ELSE << >>

TerminalLayers ==
  << Layer("unknownRoute", <<>>, FALSE),
     Layer("errorMiddleware", <<>>, TRUE) >>

Ungated(layers) == SelectSeq(layers, LAMBDA l : l.name # "verifyJwt")

\* the protected routes registered without the gate
StackUngated(docsEnabled) ==
  SecurityLayers \o GlobalLayers \o Ungated(RouteLayers) \o Ungated(GraphqlLayers)
    \o DocsLayers(docsEnabled) \o TerminalLayers

\* the routes registered ahead of the global middleware
StackRoutesFirst(docsEnabled) ==
  SecurityLayers \o RouteLayers \o GlobalLayers \o GraphqlLayers
    \o DocsLayers(docsEnabled) \o TerminalLayers

\* the security headers registered after the global middleware
StackHeadersLate(docsEnabled) ==
  GlobalLayers \o SecurityLayers \o RouteLayers \o GraphqlLayers
    \o DocsLayers(docsEnabled) \o TerminalLayers

\* the health check registered after the global middleware
StackHealthLate(docsEnabled) ==
  SecurityLayers \o SelectSeq(GlobalLayers, LAMBDA l : l.name # "healthCheck")
    \o << Layer("healthCheck", <<"health-check">>, FALSE) >>
    \o RouteLayers \o GraphqlLayers \o DocsLayers(docsEnabled) \o TerminalLayers

Stack(docsEnabled) ==
  SecurityLayers \o GlobalLayers \o RouteLayers \o GraphqlLayers
    \o DocsLayers(docsEnabled) \o TerminalLayers

\* the stack app.use built, with config.server.docs on and off
StackWithDocs == Stack(TRUE)

StackWithoutDocs == Stack(FALSE)

IsPrefix(m, p) == Len(m) <= Len(p) /\ \A i \in 1..Len(m) : m[i] = p[i]

\* Express's next(): the first later layer whose mount matches the path and
\* whose kind (error handler or not) matches the presence of an error;
\* 0 when the stack is exhausted
NextIdx(stack, from, path, hasError) ==
  LET c == {i \in (from + 1)..Len(stack) :
              IsPrefix(stack[i].mount, path) /\ stack[i].isError = hasError}
  IN IF c = {} THEN 0 ELSE CHOOSE i \in c : \A j \in c : i <= j

----------------------------------------------------------------------------
(* Per-request state                                                       *)

Idle ==
  [arrived |-> FALSE, url |-> NoUrl, origin |-> "unread", method |-> "unread",
   authorization |-> Unread, body |-> "unread", parsed |-> "undefined",
   user |-> NoUser, idx |-> 0, error |-> NoError, headers |-> {},
   sent |-> 0, res |-> NoRes, trace |-> <<>>, events |-> <<>>]

\* the stack of the running app
AppStack == IF docs THEN StackWithDocs ELSE StackWithoutDocs

At(r, name) ==
  /\ reqs[r].idx # 0
  /\ AppStack[reqs[r].idx].name = name

\* the layer runs
Enter(q) == [q EXCEPT !.trace = Append(@, q.idx)]

\* next()
PassOn(q) == [q EXCEPT !.idx = NextIdx(AppStack, q.idx, q.url.path, FALSE)]

\* next(err)
Forward(q, e) ==
  [q EXCEPT !.error = e, !.idx = NextIdx(AppStack, q.idx, q.url.path, TRUE)]

\* res.status(status).json(body) / res.end(): the response leaves with the
\* headers set so far, and the handler returns without calling next
Respond(q, by, status, body) ==
  [q EXCEPT !.idx = 0,
            !.sent = @ + 1,
            !.res = [by |-> by, status |-> status, body |-> body, headers |-> q.headers],
            !.events = Append(@, "respond")]

SetHeaders(q, hs) ==
  [q EXCEPT !.headers = {h \in @ : \A n \in hs : n[1] # h[1]} \cup hs]

Update(r, q) == reqs' = [reqs EXCEPT ![r] = q]

----------------------------------------------------------------------------
Init ==
  /\ docs \in BOOLEAN
  /\ reqs = [r \in Reqs |-> Idle]
  /\ graphqlCalls = {}

Arrive(r) ==
  /\ ~reqs[r].arrived
  /\ \E u \in Urls :
       Update(r, [Idle EXCEPT !.arrived = TRUE, !.url = u,
                              !.idx = NextIdx(AppStack, 0, u.path, FALSE)])
  /\ UNCHANGED <<docs, graphqlCalls>>


----------------------------------------------------------------------------
(* Security headers                                                        *)

HelmetDefaults ==
  { <<"X-DNS-Prefetch-Control", "off">>, <<"X-Frame-Options", "SAMEORIGIN">>,
    <<"X-Content-Type-Options", "nosniff">> }

ReferrerHeader == { <<"Referrer-Policy", "same-origin">> }

CspHeader == { <<"Content-Security-Policy", "config.contentSecurityPolicy">> }

SecurityHeaders == HelmetDefaults \cup ReferrerHeader \cup CspHeader

Helmet(r) ==
  /\ At(r, "helmet")
  /\ Update(r, PassOn(SetHeaders(Enter(reqs[r]), HelmetDefaults)))
  /\ UNCHANGED <<docs, graphqlCalls>>

ReferrerPolicy(r) ==
  /\ At(r, "referrerPolicy")
  /\ Update(r, PassOn(SetHeaders(Enter(reqs[r]), ReferrerHeader)))
  /\ UNCHANGED <<docs, graphqlCalls>>

ContentSecurityPolicy(r) ==
  /\ At(r, "contentSecurityPolicy")
  /\ Update(r, PassOn(SetHeaders(Enter(reqs[r]), CspHeader)))
  /\ UNCHANGED <<docs, graphqlCalls>>

----------------------------------------------------------------------------
(* Global middleware                                                       *)

\* express.static('public'): a GET of an existing file is answered, anything
\* else falls through
Static(r) ==
  /\ At(r, "static")
  /\ \E m \in ReadMethod(reqs[r]) :
       LET q == [Enter(reqs[r]) EXCEPT !.method = m]
       IN Update(r, IF m = "GET" /\ q.url.path \in PublicFiles
                      THEN Respond(q, "static", 200, [kind |-> "file", errors |-> <<>>])
                      ELSE PassOn(q))
  /\ UNCHANGED <<docs, graphqlCalls>>

\* express-healthcheck: answers 200 with the liveness body, reads nothing
HealthCheck(r) ==
  /\ At(r, "healthCheck")
  /\ Update(r, Respond(Enter(reqs[r]), "healthCheck", 200,
                       [kind |-> "liveness", errors |-> <<>>]))
  /\ UNCHANGED <<docs, graphqlCalls>>

PassportInitialize(r) ==
  /\ At(r, "passportInitialize")
  /\ Update(r, PassOn(Enter(reqs[r])))
  /\ UNCHANGED <<docs, graphqlCalls>>

RequestLogger(r) ==
  /\ At(r, "requestLogger")
  /\ Update(r, PassOn(Enter(reqs[r])))
  /\ UNCHANGED <<docs, graphqlCalls>>

CookieParser(r) ==
  /\ At(r, "cookieParser")
  /\ Update(r, PassOn(Enter(reqs[r])))
  /\ UNCHANGED <<docs, graphqlCalls>>

\* bodyParser.urlencoded: the bodies drawn here are not forms, so the stage
\* leaves an empty parsed body and passes on
UrlEncoded(r) ==
  /\ At(r, "urlencoded")
  /\ Update(r, PassOn([Enter(reqs[r]) EXCEPT !.parsed = "{}"]))
  /\ UNCHANGED <<docs, graphqlCalls>>

\* a JSON stage that swallows the parse error and passes on
JsonLenient(r) ==
  /\ At(r, "json")
  /\ \E b \in ReadBody(reqs[r]) :
       Update(r, PassOn([Enter(reqs[r]) EXCEPT !.body = b, !.parsed = "object"]))
  /\ UNCHANGED <<docs, graphqlCalls>>

\* bodyParser.json: reads the body; a malformed one is forwarded as an error
Json(r) ==
  /\ At(r, "json")
  /\ \E b \in ReadBody(reqs[r]) :
       LET q == [Enter(reqs[r]) EXCEPT !.body = b]
       IN Update(r, IF b = "badjson"
                      THEN Forward(q, ParseError)
                      ELSE PassOn([q EXCEPT !.parsed = "object"]))
  /\ UNCHANGED <<docs, graphqlCalls>>

\* cors({origin: <string>, optionsSuccessStatus: 200}): the configured origin
\* is written as it stands; an OPTIONS request is answered as a preflight
CorsHeaders == { <<"Access-Control-Allow-Origin", AllowedOrigin>>, <<"Vary", "Origin">> }

\* a CORS stage that reflects the request's own origin
CorsReflect(r) ==
  /\ At(r, "cors")
  /\ \E m \in ReadMethod(reqs[r]), o \in ReadOrigin(reqs[r]) :
       LET q == SetHeaders([Enter(reqs[r]) EXCEPT !.method = m, !.origin = o],
                           { <<"Access-Control-Allow-Origin", o>>, <<"Vary", "Origin">> })
       IN Update(r, IF m = "OPTIONS"
                      THEN Respond(q, "cors", 200, [kind |-> "empty", errors |-> <<>>])
                      ELSE PassOn(q))
  /\ UNCHANGED <<docs, graphqlCalls>>

Cors(r) ==
  /\ At(r, "cors")
  /\ \E m \in ReadMethod(reqs[r]), o \in ReadOrigin(reqs[r]) :
       LET q == SetHeaders([Enter(reqs[r]) EXCEPT !.method = m, !.origin = o], CorsHeaders)
       IN Update(r, IF m = "OPTIONS"
                      THEN Respond(q, "cors", 200, [kind |-> "empty", errors |-> <<>>])
                      ELSE PassOn(q))
  /\ UNCHANGED <<docs, graphqlCalls>>

----------------------------------------------------------------------------
(* Routes                                                                  *)

\* a delegated sub-pipeline: it answers, or no route of it matches (next()),
\* or it forwards an error
Delegated(q, name, outcome) ==
  CASE outcome = "respond" -> Respond(q, name, 200, [kind |-> "delegated", errors |-> <<>>])
    [] outcome = "next" -> PassOn(q)
    [] OTHER -> Forward(q, UpstreamError)

AuthRoutes(r) ==
  /\ At(r, "authRoutes")
  /\ \E o \in {"respond", "next", "error"} :
       Update(r, Delegated(Enter(reqs[r]), "authRoutes", o))
  /\ UNCHANGED <<docs, graphqlCalls>>

MailerRoutes(r) ==
  /\ At(r, "mailerRoutes")
  /\ \E o \in {"respond", "next", "error"} :
       Update(r, Delegated(Enter(reqs[r]), "mailerRoutes", o))
  /\ UNCHANGED <<docs, graphqlCalls>>

\* middleware/verify-jwt: no valid bearer token answers with an
\* authentication failure, a valid one attaches the identity and continues
VerifyJwt(r) ==
  /\ At(r, "verifyJwt")
  /\ \E t \in ReadAuthorization(reqs[r]) :
       LET q == [Enter(reqs[r]) EXCEPT !.authorization = t]
       IN Update(r, IF t.kind = "valid"
                      THEN PassOn([q EXCEPT !.user = t.sub])
                      ELSE Respond(q, "verifyJwt", 401,
                                   [kind |-> "authentication-failure", errors |-> <<>>]))
  /\ UNCHANGED <<docs, graphqlCalls>>

PaymentRoutes(r) ==
  /\ At(r, "paymentRoutes")
  /\ \E o \in {"respond", "next", "error"} :
       Update(r, Delegated(Enter(reqs[r]), "paymentRoutes", o))
  /\ UNCHANGED <<docs, graphqlCalls>>

\* a context built without the request's identity
GraphqlContextNoUser(r, q) == [req |-> r, user |-> NoUser]

\* the options callback of graphqlExpress
GraphqlContext(r, q) == [req |-> r, user |-> q.user]

\* graphqlExpress: builds the options from the request, runs the query and
\* answers with the result, or forwards what the run threw
GraphqlExpress(r) ==
  /\ At(r, "graphqlExpress")
  /\ graphqlCalls' = graphqlCalls \cup {GraphqlContext(r, reqs[r])}
  /\ \E o \in {"respond", "error"} :
       Update(r, Delegated(Enter(reqs[r]), "graphqlExpress", o))
  /\ UNCHANGED docs

GraphiqlExpress(r) ==
  /\ At(r, "graphiqlExpress")
  /\ \E o \in {"respond", "error"} :
       Update(r, Delegated(Enter(reqs[r]), "graphiqlExpress", o))
  /\ UNCHANGED <<docs, graphqlCalls>>

----------------------------------------------------------------------------
(* Terminal handlers                                                       *)

\* an unknown-route error that embeds req.path, the URL without its query
UnknownRouteErrorPath(q) ==
  [name |-> "AppError",
   message |-> "Unknown route requested",
   statusCode |-> "404",
   errors |-> <<[statusCode |-> "404", message |-> "Unknown route requested",
                 code |-> "UNKNOWN_ROUTE",
                 meta |-> [route |-> [path |-> q.url.path, query |-> ""]]]>>]

UnknownRouteError(q) ==
  [name |-> "AppError",
   message |-> "Unknown route requested",
   statusCode |-> "404",
   errors |-> <<[statusCode |-> "404", message |-> "Unknown route requested",
                 code |-> "UNKNOWN_ROUTE", meta |-> [route |-> q.url]]>>]

Log(q, level) == [q EXCEPT !.events = Append(@, level)]

\* an unknown-route handler that hands its error to next instead of answering
UnknownRouteForwards(r) ==
  /\ At(r, "unknownRoute")
  /\ LET q == Enter(reqs[r])
     IN Update(r, Forward(Log(q, "warn"), UnknownRouteError(q)))
  /\ UNCHANGED <<docs, graphqlCalls>>

UnknownRoute(r) ==
  /\ At(r, "unknownRoute")
  /\ LET q == Enter(reqs[r])
         err == formatError(UnknownRouteError(q))
     IN Update(r, Respond(Log(q, "warn"), "unknownRoute",
                          ToStatus(err.statusCode), ErrorsBody(err.jsonResponse)))
  /\ UNCHANGED <<docs, graphqlCalls>>

\* an error handler that logs and returns without answering
ErrorMiddlewareSilent(r) ==
  /\ At(r, "errorMiddleware")
  /\ Update(r, [Log(Enter(reqs[r]), "error") EXCEPT !.idx = 0])
  /\ UNCHANGED <<docs, graphqlCalls>>

ErrorMiddleware(r) ==
  /\ At(r, "errorMiddleware")
  /\ LET q == Enter(reqs[r])
         err == formatError(q.error)
     IN Update(r, Respond(Log(q, "error"), "errorMiddleware",
                          ToStatus(err.statusCode), ErrorsBody(err.jsonResponse)))
  /\ UNCHANGED <<docs, graphqlCalls>>

----------------------------------------------------------------------------
Step(r) ==
  \/ Arrive(r)
  \/ Helmet(r)
  \/ ReferrerPolicy(r)
  \/ ContentSecurityPolicy(r)
  \/ Static(r)
  \/ HealthCheck(r)
  \/ PassportInitialize(r)
  \/ RequestLogger(r)
  \/ CookieParser(r)
  \/ UrlEncoded(r)
  \/ Json(r)
  \/ Cors(r)
  \/ AuthRoutes(r)
  \/ MailerRoutes(r)
  \/ VerifyJwt(r)
  \/ PaymentRoutes(r)
  \/ GraphqlExpress(r)
  \/ GraphiqlExpress(r)
  \/ UnknownRoute(r)
  \/ ErrorMiddleware(r)

Next == \E r \in Reqs : Step(r)

Spec == Init /\ [][Next]_vars

\* the event loop keeps running the callbacks that are ready; the requests
\* are finitely many and each passes finitely many stages
LiveSpec == Spec /\ WF_vars(Next)

----------------------------------------------------------------------------
(* What the properties below speak of                                      *)

Answered(q) == q.sent > 0

Ran(q, name) == \E i \in 1..Len(q.trace) : AppStack[q.trace[i]].name = name

Under(q, mount) == q.arrived /\ IsPrefix(mount, q.url.path)

Protected(q) == Under(q, <<"api", "payments">>) \/ Under(q, <<"api", "graphql">>)

HeaderNames(hs) == {h[1] : h \in hs}

FirstCode(body) == IF Len(body.errors) > 0 THEN body.errors[1].code ELSE "none"

FirstRoute(body) == IF Len(body.errors) > 0 THEN body.errors[1].meta.route ELSE NoUrl

\* the path of a URL, as the URL string that has no query
PathOf(url) == [path |-> url.path, query |-> ""]

----------------------------------------------------------------------------
\* C1: a request to /api/payments or /api/graphql whose bearer token is
\* missing or invalid is answered by the gate with an authentication failure,
\* and neither the payments routes nor the GraphQL executor run for it; they
\* run only for a request whose token the gate found valid.
C1_GateShortCircuits ==
  \A r \in Reqs :
    LET q == reqs[r]
        invoked == \/ Ran(q, "paymentRoutes")
                   \/ Ran(q, "graphqlExpress")
                   \/ \E c \in graphqlCalls : c.req = r
    IN Protected(q) =>
         /\ q.authorization.kind \in {"none", "invalid"} =>
              /\ ~invoked
              /\ Answered(q)
              /\ q.res.by = "verifyJwt"
              /\ q.res.status = 401
              /\ q.res.body.kind = "authentication-failure"
         /\ invoked => q.authorization.kind = "valid"

C1_Witness ==
  \E r \in Reqs :
    /\ Under(reqs[r], <<"api", "graphql">>)
    /\ reqs[r].authorization.kind = "invalid"
    /\ reqs[r].res.by = "verifyJwt"

----------------------------------------------------------------------------
Listed ==
  {"static", "healthCheck", "authRoutes", "mailerRoutes", "verifyJwt",
   "paymentRoutes", "graphqlExpress", "graphiqlExpress"}

\* C2 as stated: whenever none of the static, health-check, auth, mailer,
\* payments, GraphQL or docs handlers answers, the response is 404 with
\* errors[0].code UNKNOWN_ROUTE and errors[0].meta.route the request's path.
C2_AsStated ==
  \A r \in Reqs :
    LET q == reqs[r]
    IN (Answered(q) /\ q.res.by \notin Listed) =>
         /\ q.res.status = 404
         /\ FirstCode(q.res.body) = "UNKNOWN_ROUTE"
         /\ FirstRoute(q.res.body) = PathOf(q.url)

\* C2 amended: a request that reaches the unknown-route handler is answered
\* by it with status 404, a body { errors } whose first entry has code
\* UNKNOWN_ROUTE and meta.route equal to req.url, the path with its query
\* string; a request answered without any stage having answered or forwarded
\* an error before that handler is answered by it.
C2_UnknownRoute ==
  \A r \in Reqs :
    LET q == reqs[r]
    IN /\ Ran(q, "unknownRoute") =>
            /\ q.res.by = "unknownRoute"
            /\ q.res.status = 404
            /\ q.res.body.kind = "errors"
            /\ Len(q.res.body.errors) = 1
            /\ FirstCode(q.res.body) = "UNKNOWN_ROUTE"
            /\ FirstRoute(q.res.body) = q.url
       /\ (Answered(q) /\ q.res.by \notin Listed \cup {"cors", "errorMiddleware"}) =>
            Ran(q, "unknownRoute")

C2_Witness ==
  \E r \in Reqs :
    /\ reqs[r].res.by = "unknownRoute"
    /\ reqs[r].url.query = "x=1"
    /\ FirstRoute(reqs[r].res.body) # PathOf(reqs[r].url)

----------------------------------------------------------------------------
\* the place of a layer in the order the stages are listed in
Rank(l) ==
  CASE l.name \in {"helmet", "referrerPolicy", "contentSecurityPolicy"} -> 1
    [] l.name = "static" -> 2
    [] l.name = "healthCheck" -> 3
    [] l.name = "passportInitialize" -> 4
    [] l.name = "requestLogger" -> 5
    [] l.name = "cookieParser" -> 6
    [] l.name = "urlencoded" -> 7
    [] l.name = "json" -> 8
    [] l.name = "cors" -> 9
    [] l.name = "authRoutes" -> 10
    [] l.name = "mailerRoutes" -> 11
    [] l.mount = <<"api", "payments">> -> 12
    [] l.mount = <<"api", "graphql">> -> 13
    [] l.name = "graphiqlExpress" -> 14
    [] l.name = "unknownRoute" -> 15
    [] OTHER -> 16

\* the layers of q's run so far that are not error handlers
Forwarders(q) == {q.trace[i] : i \in {k \in 1..Len(q.trace) : ~AppStack[q.trace[k]].isError}}

\* C3: the stages a request passes run in registration order (security
\* headers, static, health-check, passport, request logger, cookie parser,
\* urlencoded, JSON, CORS, auth, mailer, payments, GraphQL, docs, unknown
\* route, error handler); after each stage the request is either handed to a
\* later stage, answered, or handed with an error to the error handler; and
\* until it is answered no stage mounted on its path is passed over, other
\* than the non-error stages once an error is forwarded and the error handler
\* while none is.
C3_RegistrationOrder ==
  \A r \in Reqs :
    LET q == reqs[r]
        n == Len(q.trace)
        horizon == IF q.idx # 0 THEN q.idx ELSE IF n > 0 THEN q.trace[n] ELSE 0
    IN q.arrived =>
         /\ \A i \in 1..(n - 1) :
              /\ q.trace[i] < q.trace[i + 1]
              /\ Rank(AppStack[q.trace[i]]) <= Rank(AppStack[q.trace[i + 1]])
         /\ n > 0 /\ q.idx # 0 =>
              /\ q.trace[n] < q.idx
              /\ Rank(AppStack[q.trace[n]]) <= Rank(AppStack[q.idx])
         /\ \/ q.sent = 0 /\ q.idx # 0
            \/ q.sent = 1 /\ q.idx = 0
         /\ (q.error # NoError /\ q.idx # 0) => AppStack[q.idx].isError
         /\ (q.error = NoError /\ q.idx # 0) => ~AppStack[q.idx].isError
         /\ \A j \in 1..Len(AppStack) :
              (j < horizon /\ \A i \in 1..n : q.trace[i] # j) =>
                 \/ ~IsPrefix(AppStack[j].mount, q.url.path)
                 \/ AppStack[j].isError /\ q.error = NoError
                 \/ /\ ~AppStack[j].isError
                    /\ q.error # NoError
                    /\ \A f \in Forwarders(q) : f < j

C3_Witness ==
  \E r \in Reqs :
    /\ Ran(reqs[r], "paymentRoutes")
    /\ Ran(reqs[r], "errorMiddleware")
    /\ Len(reqs[r].trace) = 12

----------------------------------------------------------------------------
----------------------------------------------------------------------------
AllowOrigin == "Access-Control-Allow-Origin"

OtherOrigin == "http://evil.example"

\* the request came from origin o, or no stage ever looked at its Origin
\* header, so that the same response goes to a request from o
MayComeFrom(q, o) == q.origin = o \/ q.origin = "unread"

\* C5 as stated: on every path the server answers, /public and /health-check
\* included, a request from the allowed origin receives
\* Access-Control-Allow-Origin and a request from another origin does not.
C5_AsStated ==
  \A r \in Reqs :
    LET q == reqs[r]
    IN Answered(q) =>
         /\ MayComeFrom(q, AllowedOrigin) => AllowOrigin \in HeaderNames(q.res.headers)
         /\ q.origin = OtherOrigin => AllowOrigin \notin HeaderNames(q.res.headers)

\* C5 amended: a response carries Access-Control-Allow-Origin exactly when
\* the CORS stage ran for its request, and then its value is the configured
\* origin http://localhost:8080 whatever the request's Origin, so that no
\* other origin is ever named; the responses of /public files and of
\* /health-check, and the error response to a body the JSON stage rejected,
\* are sent without the CORS stage having run and carry no such header.
C5_AllowOriginAfterCors ==
  \A r \in Reqs :
    LET q == reqs[r]
    IN Answered(q) =>
         /\ AllowOrigin \in HeaderNames(q.res.headers) <=> Ran(q, "cors")
         /\ \A h \in q.res.headers : h[1] = AllowOrigin => h[2] = AllowedOrigin
         /\ q.res.by \in {"static", "healthCheck"} => ~Ran(q, "cors")
         /\ q.body = "badjson" => ~Ran(q, "cors")

C5_Witness ==
  \E r1, r2 \in Reqs :
    /\ reqs[r1].res.by = "healthCheck"
    /\ AllowOrigin \notin HeaderNames(reqs[r1].res.headers)
    /\ Answered(reqs[r2])
    /\ reqs[r2].origin = OtherOrigin
    /\ <<AllowOrigin, AllowedOrigin>> \in reqs[r2].res.headers

----------------------------------------------------------------------------
RouteHandlers ==
  {"authRoutes", "mailerRoutes", "verifyJwt", "paymentRoutes", "graphqlExpress",
   "graphiqlExpress"}

----------------------------------------------------------------------------
\* C7: a request to /health-check is answered 200 with the liveness body by
\* the health-check stage, before the gate, the body parsers and CORS, with
\* its Authorization header, its body and its Origin never read; any two such
\* requests get the same response.
C7_HealthCheck ==
  /\ \A r \in Reqs :
       LET q == reqs[r]
       IN (Under(q, <<"health-check">>) /\ Answered(q)) =>
            /\ q.res.by = "healthCheck"
            /\ q.res.status = 200
            /\ q.res.body.kind = "liveness"
            /\ q.authorization = Unread
            /\ q.body = "unread"
            /\ q.origin = "unread"
            /\ \A h \in {"verifyJwt", "urlencoded", "json", "cors"} : ~Ran(q, h)
  /\ \A r1, r2 \in Reqs :
       ( /\ Under(reqs[r1], <<"health-check">>) /\ Answered(reqs[r1])
         /\ Under(reqs[r2], <<"health-check">>) /\ Answered(reqs[r2]) ) =>
           reqs[r1].res = reqs[r2].res

C7_Witness ==
  \E r1, r2 \in Reqs :
    /\ r1 # r2
    /\ reqs[r1].res.by = "healthCheck"
    /\ reqs[r2].res.by = "healthCheck"
    /\ reqs[r1].res.status = 200

----------------------------------------------------------------------------
\* C8: the GraphQL executor is invoked only for a request to /api/graphql
\* whose token the gate found valid, with a context whose req is that request
\* and whose user is the identity the gate attached to it, the identity of
\* the request's own token.
C8_GraphqlContext ==
  /\ \A c \in graphqlCalls :
       LET q == reqs[c.req]
       IN /\ Under(q, <<"api", "graphql">>)
          /\ Ran(q, "verifyJwt")
          /\ q.authorization.kind = "valid"
          /\ q.user = q.authorization.sub
          /\ c.user = q.user
          /\ c.user \in Users
  /\ \A r \in Reqs :
       /\ Ran(reqs[r], "graphqlExpress") => GraphqlContext(r, reqs[r]) \in graphqlCalls
       /\ reqs[r].user # NoUser => reqs[r].user = reqs[r].authorization.sub

C8_Witness ==
  \E c1, c2 \in graphqlCalls :
    /\ c1.req # c2.req
    /\ c1.user # c2.user
    /\ reqs[c1.req].res.by = "graphqlExpress"

----------------------------------------------------------------------------
\* C9: the unknown-route handler and the error handler each log (warn, resp.
\* error) and then answer, with the status of the formatted error and a body
\* { errors: [...] }; each is the last stage of its request, which is
\* answered once, and a request the unknown-route handler took never reaches
\* the error handler.
C9_Terminals ==
  \A r \in Reqs :
    LET q == reqs[r]
        n == Len(q.trace)
    IN /\ Ran(q, "unknownRoute") =>
            /\ q.events = <<"warn", "respond">>
            /\ AppStack[q.trace[n]].name = "unknownRoute"
            /\ q.idx = 0 /\ q.sent = 1
            /\ q.error = NoError
            /\ ~Ran(q, "errorMiddleware")
            /\ q.res.by = "unknownRoute"
            /\ q.res.status = ToStatus(formatError(UnknownRouteError(q)).statusCode)
            /\ q.res.body.kind = "errors" /\ Len(q.res.body.errors) > 0
       /\ Ran(q, "errorMiddleware") =>
            /\ q.events = <<"error", "respond">>
            /\ AppStack[q.trace[n]].name = "errorMiddleware"
            /\ q.idx = 0 /\ q.sent = 1
            /\ q.res.by = "errorMiddleware"
            /\ q.res.status = ToStatus(formatError(q.error).statusCode)
            /\ q.res.body.kind = "errors" /\ Len(q.res.body.errors) > 0

C9_Witness ==
  \E r1, r2 \in Reqs :
    /\ reqs[r1].res.by = "unknownRoute"
    /\ reqs[r1].events = <<"warn", "respond">>
    /\ reqs[r2].res.by = "errorMiddleware"
    /\ reqs[r2].error = UpstreamError

----------------------------------------------------------------------------
Responders ==
  {"static", "healthCheck", "cors", "verifyJwt", "authRoutes", "mailerRoutes",
   "paymentRoutes", "graphqlExpress", "graphiqlExpress", "unknownRoute", "errorMiddleware"}

\* C10: with every delegated stage answering once, passing on once or
\* forwarding one error, every request, alone or interleaved with another,
\* ends with exactly one response, sent by a short-circuiting stage, by the
\* unknown-route handler or by the error handler, and is never answered twice.
C10_ExactlyOneResponse ==
  /\ <>[](\A r \in Reqs : reqs[r].sent = 1 /\ reqs[r].idx = 0)
  /\ [](\A r \in Reqs :
          /\ reqs[r].sent <= 1
          /\ Answered(reqs[r]) => reqs[r].res.by \in Responders)

C10_Witness ==
  \E r1, r2 \in Reqs :
    /\ reqs[r1].sent = 1
    /\ reqs[r1].res.by = "unknownRoute"
    /\ reqs[r2].sent = 0
    /\ reqs[r2].idx # 0
    /\ Len(reqs[r2].trace) > 3
    /\ Len(reqs[r1].trace) > Len(reqs[r2].trace)

====
